---- MODULE Spec2Model ----
(***************************************************************************)
(* State-machine model of SyncPlatform                                     *)
(* (src/app/platform/fabric/sync/SyncPlatform.js): the initialization      *)
(* sequence with its suspension points, the self-rescheduling sync timer,  *)
(* the per-channel pass isChannelEventHubConnected, setBlocksSyncTime and  *)
(* destroy.  One action is one run of JavaScript between two suspension    *)
(* points (a call, or the resumption of an await, up to the next await).   *)
(***************************************************************************)
EXTENDS Integers, Sequences, FiniteSets, Bags, TLC

\* ------------------------------------------------------------------ bounds
\* Number of channels client.getChannels() holds (iterated in Map order 1..n).
NumChannels == 2
\* Number of runs of the per-channel loop that may be in progress at once.
MaxPasses == 2
\* Milliseconds of time that pass in one Advance step.
TimeStep == 60000

\* ------------------------------------------------- constants of the program
\* this.blocksSyncTime = 60000  (constructor)
DefaultBlocksSyncTime == 60000
\* time * 60 * 1000  (setBlocksSyncTime)
MsPerMinute == 60 * 1000

Channels == 1..NumChannels

\* ---------------------------------------------------- configuration (config.json)
\* Object.keys(network_configs), in insertion order.
NetworkKeys == <<"net1", "net2">>
\* network_configs[n].name
NetworkDefaultClient(n) == IF n = "net1" THEN "clientA" ELSE "clientD"
\* Object.keys(network_configs[n].clients), in insertion order.
NetworkClients(n) == IF n = "net1" THEN <<"clientA", "clientB">> ELSE <<"clientC", "clientD">>
IsNetwork(n) == \E i \in 1..Len(NetworkKeys) : NetworkKeys[i] = n
IsClientOf(n, c) ==
    IsNetwork(n) /\ \E i \in 1..Len(NetworkClients(n)) : NetworkClients(n)[i] = c
\* The argument lists initialize is called with.
ArgsDomain ==
    { <<>>, <<"net1">>, <<"netX">>,
      <<"net1", "clientA">>, <<"net1", "clientX">>, <<"netX", "clientA">> }

\* --------------------------------------------------------- JavaScript values
\* A value handed to setBlocksSyncTime: undefined, an object, a number or a
\* string (a sequence of one-character strings).
JsUndefined == [t |-> "undefined"]
JsObject == [t |-> "object"]
JsNum(n) == [t |-> "number", n |-> n]
JsStr(s) == [t |-> "string", s |-> s]
\* The whole parsed config.json, which initialize passes to setBlocksSyncTime.
all_config == JsObject

Digits == <<"0", "1", "2", "3", "4", "5", "6", "7", "8", "9">>
IsDigit(ch) == \E i \in 1..10 : Digits[i] = ch
DigitVal(ch) == (CHOOSE i \in 1..10 : Digits[i] = ch) - 1

\* if (blocksSyncTime): JavaScript truthiness.
Truthy(v) ==
    CASE v.t = "undefined" -> FALSE
      [] v.t = "object" -> TRUE
      [] v.t = "number" -> v.n # 0
      [] v.t = "string" -> Len(v.s) > 0

\* String(v) for the values above, as a sequence of characters.  An object
\* prints as "[object Object]", of which only the first character matters to
\* parseInt.
RECURSIVE NatToStr(_)
NatToStr(n) ==
    IF n < 10 THEN <<Digits[n + 1]>>
    ELSE NatToStr(n \div 10) \o <<Digits[(n % 10) + 1]>>
ToStr(v) ==
    CASE v.t = "undefined" -> <<"u", "n", "d", "e", "f", "i", "n", "e", "d">>
      [] v.t = "object" -> <<"[", "o", "b", "j", "e", "c", "t", " ", "O", "b", "j", "e", "c", "t", "]">>
      [] v.t = "number" -> IF v.n < 0 THEN <<"-">> \o NatToStr(-v.n) ELSE NatToStr(v.n)
      [] v.t = "string" -> v.s

\* The digits parseInt reads: the longest prefix of decimal digits.
RECURSIVE DigitPrefix(_)
DigitPrefix(s) ==
    IF s = <<>> \/ ~IsDigit(Head(s)) THEN <<>>
    ELSE <<Head(s)>> \o DigitPrefix(Tail(s))
RECURSIVE DigitsVal(_, _)
DigitsVal(s, acc) ==
    IF s = <<>> THEN acc ELSE DigitsVal(Tail(s), acc * 10 + DigitVal(Head(s)))
RECURSIVE SkipSpaces(_)
SkipSpaces(s) == IF s # <<>> /\ Head(s) = " " THEN SkipSpaces(Tail(s)) ELSE s

\* parseInt(v, 10): leading white space is skipped, one sign is read, then
\* decimal digits up to the first other character; NaN when there is no digit.
ParseInt10(v) ==
    LET s0 == SkipSpaces(ToStr(v))
        neg == s0 # <<>> /\ Head(s0) = "-"
        s1 == IF s0 # <<>> /\ Head(s0) \in {"-", "+"} THEN Tail(s0) ELSE s0
        ds == DigitPrefix(s1)
    IN  IF ds = <<>> THEN [nan |-> TRUE, n |-> 0]
        ELSE [nan |-> FALSE, n |-> IF neg THEN -DigitsVal(ds, 0) ELSE DigitsVal(ds, 0)]

\* Mutant of setBlocksSyncTime: minutes are taken for seconds.
MutSetBlocksSyncTime(cur, v) ==
    IF Truthy(v)
    THEN LET time == ParseInt10(v)
         IN  IF ~time.nan THEN time.n * 1000 ELSE cur
    ELSE cur

\* setBlocksSyncTime(blocksSyncTime): the new value of this.blocksSyncTime.
setBlocksSyncTime(cur, v) ==
    IF Truthy(v)
    THEN LET time == ParseInt10(v)
         IN  IF ~time.nan THEN time.n * MsPerMinute ELSE cur
    ELSE cur

\* -------------------------------------------------------------------- state
VARIABLES
    initPc,          \* where initialize(args) stands: "idle", "await_*", "done", "returned", "raised"
    initError,       \* what initialize raised: "none", "TypeError", "ERROR_2011", "rejected"
    network_name,    \* this.network_name
    client_name,     \* this.client_name
    client,          \* this.client: "null" or "client"
    eventHub,        \* this.eventHub: "null" or "hub"
    blocksSyncTime,  \* this.blocksSyncTime, in ms
    client_configs,  \* this.client_configs: "null", "undefined" or the network it was built from
    hfc,             \* global.hfc.config: discovery-cache-life, initialize-with-discovery
    registered,      \* result of synchNetworkConfigToDB: "none", "true", "false"
    hubInitialized,  \* eventHub.initialize() has opened the initial event streams
    connected,       \* per channel: the channel event hub is connected
    reconnecting,    \* per channel: a connectChannelEventHub call is in progress
    timers,          \* pending setTimeout(sync) timers, each the ms left before it is due
    running,         \* the bag of runs of the per-channel loop suspended at an await
    lastPass,        \* the run of the per-channel loop that ended last
    startInterval,   \* blocksSyncTime when the first timer was scheduled; -1 before
    sinceStart,      \* ms since the first timer was scheduled, counted up to startInterval
    ticked,          \* the timer callback has run at least once
    tickFlip,        \* flips at every run of the timer callback
    destroyed,       \* destroy() has been called
    destroyedEarly,  \* destroy() was called before initialize had completed
    destroyRaised,   \* a destroy() call raised
    config_sync,     \* the "sync interval in minutes" field of config.json
    lastArg,         \* the argument of the last setBlocksSyncTime call
    prevSyncTime     \* this.blocksSyncTime before the last setBlocksSyncTime call

vars ==
    << initPc, initError, network_name, client_name, client, eventHub,
       blocksSyncTime, client_configs, hfc, registered, hubInitialized,
       connected, reconnecting, timers, running, lastPass, startInterval, sinceStart,
       ticked, tickFlip, destroyed, destroyedEarly, destroyRaised,
       config_sync, lastArg, prevSyncTime >>

initVars ==
    << initPc, initError, network_name, client_name, client, eventHub,
       client_configs, hfc, registered, hubInitialized >>
passVars == << running, lastPass >>
histVars == << startInterval, sinceStart, ticked, tickFlip >>
destroyVars == << destroyed, destroyedEarly, destroyRaised >>
callVars == << lastArg, prevSyncTime >>

IdlePass ==
    [ st |-> "idle", idx |-> 0, failedAt |-> 0,
      seen |-> [c \in Channels |-> "none"],
      syncCalls |-> [c \in Channels |-> 0],
      reconnCalls |-> [c \in Channels |-> 0] ]

\* No setBlocksSyncTime call has been made yet.
NoArg == [t |-> "none"]

\* The state after new SyncPlatform(persistence, sender).
Constructed ==
    /\ initPc = "idle"
    /\ initError = "none"
    /\ network_name = "null"
    /\ client_name = "null"
    /\ client = "null"
    /\ eventHub = "null"
    /\ blocksSyncTime = DefaultBlocksSyncTime
    /\ client_configs = "null"
    /\ hfc = [discovery_cache_life |-> -1, initialize_with_discovery |-> FALSE]
    /\ registered = "none"
    /\ hubInitialized = FALSE
    /\ connected = [c \in Channels |-> FALSE]
    /\ reconnecting = [c \in Channels |-> FALSE]
    /\ timers = <<>>
    /\ running = EmptyBag
    /\ lastPass = IdlePass
    /\ startInterval = -1
    /\ sinceStart = 0
    /\ ticked = FALSE
    /\ tickFlip = FALSE
    /\ destroyed = FALSE
    /\ destroyedEarly = FALSE
    /\ destroyRaised = FALSE
    /\ lastArg = NoArg
    /\ prevSyncTime = DefaultBlocksSyncTime

\* A new SyncPlatform, with a config.json that has no sync interval field.
Init == Constructed /\ config_sync = JsUndefined

InitFinished == initPc \in {"done", "returned", "raised"}

\* Mutant of SelectNetwork: with one argument the client is the network's
\* default client name.
MutSelectNetwork(args) ==
    IF Len(args) = 0
    THEN [ok |-> TRUE, network |-> NetworkKeys[1],
          client |-> NetworkDefaultClient(NetworkKeys[1])]
    ELSE IF Len(args) = 1
    THEN IF IsNetwork(args[1])
         THEN [ok |-> TRUE, network |-> args[1], client |-> NetworkDefaultClient(args[1])]
         ELSE [ok |-> FALSE, network |-> args[1], client |-> "null"]
    ELSE [ok |-> TRUE, network |-> args[1], client |-> args[2]]

\* ---------------------------------------------------------------- initialize
\* Lines 66-79: the (network, client) chosen from args; ok = FALSE when the
\* lookup dereferences a network that the configuration does not hold.
SelectNetwork(args) ==
    IF Len(args) = 0
    THEN [ok |-> TRUE, network |-> NetworkKeys[1],
          client |-> NetworkDefaultClient(NetworkKeys[1])]
    ELSE IF Len(args) = 1
    THEN IF IsNetwork(args[1])
         THEN [ok |-> TRUE, network |-> args[1], client |-> NetworkClients(args[1])[1]]
         ELSE [ok |-> FALSE, network |-> args[1], client |-> "null"]
    ELSE [ok |-> TRUE, network |-> args[1], client |-> args[2]]

\* initialize(args), lines 56-88, up to the await of setBlocksSyncTime.
Initialize(args) ==
    /\ initPc = "idle"
    /\ LET sel == SelectNetwork(args)
       IN  /\ network_name' = sel.network
           /\ client_name' = IF sel.ok THEN sel.client ELSE client_name
           /\ IF sel.ok
              THEN /\ blocksSyncTime' = setBlocksSyncTime(blocksSyncTime, all_config)
                   /\ lastArg' = all_config
                   /\ prevSyncTime' = blocksSyncTime
                   /\ initPc' = "await_setBlocksSyncTime"
                   /\ initError' = "none"
              ELSE /\ UNCHANGED << blocksSyncTime, callVars >>
                   /\ initPc' = "raised"
                   /\ initError' = "TypeError"
    /\ UNCHANGED << client, eventHub, client_configs, hfc, registered, hubInitialized,
                    connected, reconnecting, timers, passVars, histVars, destroyVars,
                    config_sync >>

\* Mutant of HfcSettings: discovery is not switched on.
MutHfcSettings(bst) == [discovery_cache_life |-> bst, initialize_with_discovery |-> FALSE]

\* global.hfc.config.set('discovery-cache-life', this.blocksSyncTime) and
\* global.hfc.config.set('initialize-with-discovery', true)  (lines 92-93).
HfcSettings(bst) == [discovery_cache_life |-> bst, initialize_with_discovery |-> TRUE]

\* Lines 90-97: the global SDK settings, then the call of setOrgEnrolmentPath.
ResumeSetBlocksSyncTime ==
    /\ initPc = "await_setBlocksSyncTime"
    /\ hfc' = HfcSettings(blocksSyncTime)
    /\ initPc' = "await_setOrgEnrolmentPath"
    /\ UNCHANGED << initError, network_name, client_name, client, eventHub,
                    blocksSyncTime, client_configs, registered, hubInitialized,
                    connected, reconnecting, timers, passVars, histVars, destroyVars, config_sync, callVars >>

\* FabricUtils.setOrgEnrolmentPath(network_configs[network_name]): the
\* configuration with its enrolment paths; for a network the configuration
\* does not hold it is handed undefined, and either rejects or hands it back.
setOrgEnrolmentPath(n) ==
    IF IsNetwork(n) THEN {[ok |-> TRUE, cfg |-> n]}
    ELSE {[ok |-> TRUE, cfg |-> "undefined"], [ok |-> FALSE, cfg |-> "undefined"]}

\* Lines 97-102: client_configs is assigned and createFabricClient is called.
ResumeSetOrgEnrolmentPath ==
    /\ initPc = "await_setOrgEnrolmentPath"
    /\ \E r \in setOrgEnrolmentPath(network_name) :
         IF r.ok
         THEN /\ client_configs' = r.cfg
              /\ initPc' = "await_createFabricClient"
              /\ initError' = initError
         ELSE /\ client_configs' = client_configs
              /\ initPc' = "raised"
              /\ initError' = "rejected"
    /\ UNCHANGED << network_name, client_name, client, eventHub, blocksSyncTime,
                    hfc, registered, hubInitialized, connected, reconnecting,
                    timers, passVars, histVars, destroyVars, config_sync, callVars >>

\* FabricUtils.createFabricClient(client_configs, client_name): a client, or
\* null; never a client for a name the configuration does not list.
createFabricClient(cfg, name) ==
    IF IsClientOf(cfg, name) THEN {"client", "null"} ELSE {"null"}

\* Mutant of ClientUsable: a missing client is not noticed.
MutClientUsable(c) == TRUE

\* if (!this.client) throw ... (line 103)
ClientUsable(c) == c # "null"

\* Lines 99-108: this.client is assigned; without a client initialize throws,
\* otherwise synchNetworkConfigToDB is called.
ResumeCreateFabricClient ==
    /\ initPc = "await_createFabricClient"
    /\ \E c \in createFabricClient(client_configs, client_name) :
         /\ client' = c
         /\ IF ClientUsable(c)
            THEN initPc' = "await_synchNetworkConfigToDB" /\ initError' = initError
            ELSE initPc' = "raised" /\ initError' = "ERROR_2011"
    /\ UNCHANGED << network_name, client_name, eventHub, blocksSyncTime,
                    client_configs, hfc, registered, hubInitialized, connected,
                    reconnecting, timers, passVars, histVars, destroyVars, config_sync, callVars >>

\* Mutant of RegistrationOk: the result of the registration is not looked at.
MutRegistrationOk(res) == TRUE

\* if (!res) return;  (line 109): whether initialize goes on to start the hub.
RegistrationOk(res) == res

\* Lines 108-115: the result of synchNetworkConfigToDB; on failure initialize
\* returns, otherwise the FabricEvent is constructed and its initialize called.
ResumeSynchNetworkConfigToDB ==
    /\ initPc = "await_synchNetworkConfigToDB"
    /\ \E res \in BOOLEAN :
         /\ registered' = IF res THEN "true" ELSE "false"
         /\ IF RegistrationOk(res)
            THEN eventHub' = "hub" /\ initPc' = "await_eventHub_initialize"
            ELSE eventHub' = eventHub /\ initPc' = "returned"
    /\ UNCHANGED << initError, network_name, client_name, client, blocksSyncTime,
                    client_configs, hfc, hubInitialized, connected, reconnecting,
                    timers, passVars, histVars, destroyVars, config_sync, callVars >>

\* FabricEvent.initialize(): opens the event stream of every channel.
EventHubInitialize ==
    /\ initPc = "await_eventHub_initialize"
    /\ ~hubInitialized
    /\ hubInitialized' = TRUE
    /\ connected' = [c \in Channels |-> TRUE]
    /\ UNCHANGED << initPc, initError, network_name, client_name, client, eventHub,
                    blocksSyncTime, client_configs, hfc, registered, reconnecting,
                    timers, passVars, histVars, destroyVars, config_sync, callVars >>

\* setTimeout(f, delay): the ms before the timer is due (a negative delay is
\* due at once).
TimerDelay(delay) == IF delay < 0 THEN 0 ELSE delay

\* Mutant of FirstDelay: the first tick is scheduled at once.
MutFirstDelay(bst) == 0

\* setTimeout(sync, this.blocksSyncTime)  (line 127): the delay of the first tick.
FirstDelay(bst) == bst

\* Lines 115-131: the first timer is scheduled and initialize ends.
ResumeEventHubInitialize ==
    /\ initPc = "await_eventHub_initialize"
    /\ hubInitialized
    /\ timers' = Append(timers, TimerDelay(FirstDelay(blocksSyncTime)))
    /\ startInterval' = blocksSyncTime
    /\ sinceStart' = 0
    /\ initPc' = "done"
    /\ UNCHANGED << initError, network_name, client_name, client, eventHub,
                    blocksSyncTime, client_configs, hfc, registered, hubInitialized,
                    connected, reconnecting, passVars, ticked, tickFlip, destroyVars, config_sync, callVars >>

\* ------------------------------------------------------ the per-channel pass
\* Mutant of ChannelBranch: the status of the channel is not looked at.
MutChannelBranch(status) == "sync"

\* if (status) ... else ...  (line 143): what is done with a channel.
ChannelBranch(status) == IF status THEN "sync" ELSE "reconnect"

\* Lines 140-149, from channel i on: a connected channel gets
\* syncService.synchBlocks called and the loop awaits it; a disconnected one
\* gets eventHub.connectChannelEventHub called and the loop goes on.
RECURSIVE PassLoop(_, _, _, _)
PassLoop(ps, i, conn, rc) ==
    IF i > NumChannels
    THEN [ps |-> [ps EXCEPT !.st = "done", !.idx = 0], rc |-> rc]
    ELSE LET seen == [ps EXCEPT !.seen[i] = IF conn[i] THEN "conn" ELSE "disc"]
         IN  IF ChannelBranch(conn[i]) = "sync"
             THEN [ps |-> [seen EXCEPT !.st = "await", !.idx = i,
                                       !.syncCalls[i] = @ + 1],
                   rc |-> rc]
             ELSE PassLoop([seen EXCEPT !.reconnCalls[i] = @ + 1], i + 1, conn,
                           [rc EXCEPT ![i] = TRUE])

\* await this.syncService.synchBlocks(...) rejected (line 144): nothing
\* catches it, the loop ends there and the pass rejects.
PassRejected(ps) == [ps EXCEPT !.st = "failed", !.failedAt = ps.idx, !.idx = 0]

\* Where a run of the loop stands after a step: suspended at the await of
\* line 144 (it joins the runs in progress) or ended.
Suspend(others, r) ==
    /\ running' = IF r.ps.st = "await" THEN others (+) SetToBag({r.ps}) ELSE others
    /\ lastPass' = IF r.ps.st = "await" THEN lastPass ELSE r.ps
    /\ reconnecting' = r.rc

\* isChannelEventHubConnected() called from outside the timer.
isChannelEventHubConnected ==
    /\ client # "null"
    /\ eventHub # "null"
    /\ BagCardinality(running) < MaxPasses
    /\ Suspend(running, PassLoop(IdlePass, 1, connected, reconnecting))
    /\ UNCHANGED << initVars, blocksSyncTime, connected, timers, histVars, destroyVars, config_sync, callVars >>

\* The await of line 144 resumes: synchBlocks resolved (ok) or rejected.
ResumeSynchBlocks(ps, ok) ==
    /\ BagIn(ps, running)
    /\ Suspend(running (-) SetToBag({ps}),
               IF ok
               THEN PassLoop(ps, ps.idx + 1, connected, reconnecting)
               ELSE [ps |-> PassRejected(ps), rc |-> reconnecting])
    /\ UNCHANGED << initVars, blocksSyncTime, connected, timers, histVars, destroyVars, config_sync, callVars >>

\* -------------------------------------------------------------- the sync timer
\* FabricEvent.synchBlocks(), called and not awaited by the timer callback
\* (line 121): one run of the per-channel loop.
eventHub_synchBlocks(conn, rc) == PassLoop(IdlePass, 1, conn, rc)

\* Mutant of Reschedule: the successor is scheduled two intervals away.
MutRescheduleLate(ts, bst) == Append(ts, TimerDelay(bst + bst))

\* Mutant of Reschedule: the callback schedules two successors.
MutRescheduleTwice(ts, bst) == Append(Append(ts, TimerDelay(bst)), TimerDelay(bst))

\* Mutant of Reschedule: the callback does not schedule its successor.
MutReschedule(ts, bst) == ts

\* setTimeout(() => sync(), this.blocksSyncTime)  (lines 122-124).
Reschedule(ts, bst) == Append(ts, TimerDelay(bst))

RemoveAt(s, i) == [j \in 1..(Len(s) - 1) |-> IF j < i THEN s[j] ELSE s[j + 1]]

\* The timer callback sync (lines 117-125) of a timer that is due.
sync ==
    /\ \E i \in 1..Len(timers) :
         /\ timers[i] = 0
         /\ BagCardinality(running) < MaxPasses
         /\ IF eventHub = "null"
            THEN /\ timers' = RemoveAt(timers, i)
                 /\ UNCHANGED << running, lastPass, reconnecting >>
            ELSE /\ Suspend(running, eventHub_synchBlocks(connected, reconnecting))
                 /\ timers' = Reschedule(RemoveAt(timers, i), blocksSyncTime)
    /\ ticked' = TRUE
    /\ tickFlip' = ~tickFlip
    /\ UNCHANGED << initVars, blocksSyncTime, connected, startInterval, sinceStart,
                    destroyVars, config_sync, callVars >>

\* ---------------------------------------------------------------------- destroy
\* FabricEvent.disconnectEventHubs(): every channel event hub is disconnected.
disconnectEventHubs(conn) == [c \in Channels |-> FALSE]

\* Mutant of destroy: this.eventHub is used without the test for null.
MutDestroy(eh, conn) == [conn |-> disconnectEventHubs(conn), raised |-> eh = "null"]

\* destroy()  (lines 193-197).
destroy(eh, conn) ==
    IF eh # "null"
    THEN [conn |-> disconnectEventHubs(conn), raised |-> FALSE]
    ELSE [conn |-> conn, raised |-> FALSE]

Destroy ==
    /\ LET r == destroy(eventHub, connected)
       IN  /\ connected' = r.conn
           /\ destroyRaised' = (destroyRaised \/ r.raised)
    /\ destroyed' = TRUE
    /\ destroyedEarly' = (destroyedEarly \/ ~InitFinished)
    /\ UNCHANGED << initVars, blocksSyncTime, reconnecting, timers, passVars, histVars,
                    config_sync, callVars >>

\* ---------------------------------------------------------------- environment
\* The event stream of channel c goes down.
ChannelEventHubDown(c) ==
    /\ connected[c]
    /\ connected' = [connected EXCEPT ![c] = FALSE]
    /\ UNCHANGED << initVars, blocksSyncTime, reconnecting, timers, passVars, histVars,
                    destroyVars, config_sync, callVars >>

\* A connectChannelEventHub call completes: the stream of channel c is up.
ChannelEventHubUp(c) ==
    /\ reconnecting[c]
    /\ reconnecting' = [reconnecting EXCEPT ![c] = FALSE]
    /\ connected' = [connected EXCEPT ![c] = TRUE]
    /\ UNCHANGED << initVars, blocksSyncTime, timers, passVars, histVars, destroyVars, config_sync, callVars >>

Min(a, b) == IF a < b THEN a ELSE b
Max(a, b) == IF a > b THEN a ELSE b

\* TimeStep ms pass.
Advance ==
    /\ \/ \E i \in 1..Len(timers) : timers[i] > 0
       \/ sinceStart < startInterval
    /\ timers' = [i \in 1..Len(timers) |-> Max(0, timers[i] - TimeStep)]
    /\ sinceStart' = IF sinceStart < startInterval
                     THEN Min(startInterval, sinceStart + TimeStep)
                     ELSE sinceStart
    /\ UNCHANGED << initVars, blocksSyncTime, connected, reconnecting, passVars,
                    startInterval, ticked, tickFlip, destroyVars, config_sync, callVars >>

\* ------------------------------------------------------------- specification
Next ==
    \/ \E args \in ArgsDomain : Initialize(args)
    \/ ResumeSetBlocksSyncTime
    \/ ResumeSetOrgEnrolmentPath
    \/ ResumeCreateFabricClient
    \/ ResumeSynchNetworkConfigToDB
    \/ EventHubInitialize
    \/ ResumeEventHubInitialize
    \/ isChannelEventHubConnected
    \/ \E ps \in BagToSet(running), ok \in BOOLEAN : ResumeSynchBlocks(ps, ok)
    \/ sync
    \/ Destroy
    \/ \E c \in Channels : ChannelEventHubDown(c)
    \/ \E c \in Channels : ChannelEventHubUp(c)
    \/ Advance

Spec == Init /\ [][Next]_vars

\* The controller left to itself: no shutdown, and the per-channel loop is run
\* by the timer only.
ControllerNext ==
    \/ \E args \in ArgsDomain : Initialize(args)
    \/ ResumeSetBlocksSyncTime
    \/ ResumeSetOrgEnrolmentPath
    \/ ResumeCreateFabricClient
    \/ ResumeSynchNetworkConfigToDB
    \/ EventHubInitialize
    \/ ResumeEventHubInitialize
    \/ \E ps \in BagToSet(running), ok \in BOOLEAN : ResumeSynchBlocks(ps, ok)
    \/ sync
    \/ \E c \in Channels : ChannelEventHubDown(c)
    \/ \E c \in Channels : ChannelEventHubUp(c)
    \/ Advance

ControllerSpec == Init /\ [][ControllerNext]_vars

\* Time passes, the event loop runs a timer callback that is due, and every
\* synchBlocks call settles.
FairSpec ==
    /\ ControllerSpec
    /\ WF_vars(Advance)
    /\ WF_vars(sync)
    /\ WF_vars(\E ps \in BagToSet(running), ok \in BOOLEAN : ResumeSynchBlocks(ps, ok))

\* --------------------------------------------------- initialize on its own
\* What the sync interval field of config.json may hold: nothing, a number of
\* minutes, or a word.
ConfigSyncDomain == { JsUndefined, JsNum(2), JsNum(5), JsStr(<<"a", "b", "c">>) }

\* Argument lists of length 0, 1 and 2 over the names the configuration holds
\* and names it does not hold.
WideArgsDomain ==
    {<<>>}
    \cup { <<n>> : n \in {"net1", "net2", "netX"} }
    \cup { <<n, c>> : n \in {"net1", "net2", "netX"},
                      c \in {"clientA", "clientC", "clientD", "clientX"} }

\* A new SyncPlatform, with any of the configurations.
AnyConfig == Constructed /\ config_sync \in ConfigSyncDomain

\* initialize(args) from its call to the scheduling of the first timer.
InitializeNext ==
    \/ \E args \in WideArgsDomain : Initialize(args)
    \/ ResumeSetBlocksSyncTime
    \/ ResumeSetOrgEnrolmentPath
    \/ ResumeCreateFabricClient
    \/ ResumeSynchNetworkConfigToDB
    \/ EventHubInitialize
    \/ ResumeEventHubInitialize

InitializeSpec == AnyConfig /\ [][InitializeNext]_vars

\* ------------------------------------------- setBlocksSyncTime as a method
\* What a caller may hand to setBlocksSyncTime: nothing, an object, numbers
\* and strings, among them "0", a negative numeral and a word.
SyncTimeInputs ==
    { JsUndefined, JsObject, JsNum(0), JsNum(5), JsNum(-1),
      JsStr(<<>>), JsStr(<<"0">>), JsStr(<<"2">>), JsStr(<<"5">>),
      JsStr(<<"-", "1">>), JsStr(<<"a", "b", "c">>) }

\* A call of the public method setBlocksSyncTime(v) (lines 152-159) by a user
\* of the object, at any moment.
SetBlocksSyncTime(v) ==
    /\ blocksSyncTime' = setBlocksSyncTime(blocksSyncTime, v)
    /\ lastArg' = v
    /\ prevSyncTime' = blocksSyncTime
    /\ UNCHANGED << initVars, connected, reconnecting, timers, passVars, histVars,
                    destroyVars, config_sync >>

\* initialize together with calls of setBlocksSyncTime from outside.
IntervalNext ==
    \/ \E args \in ArgsDomain : Initialize(args)
    \/ ResumeSetBlocksSyncTime
    \/ ResumeSetOrgEnrolmentPath
    \/ ResumeCreateFabricClient
    \/ ResumeSynchNetworkConfigToDB
    \/ EventHubInitialize
    \/ ResumeEventHubInitialize
    \/ \E v \in SyncTimeInputs : SetBlocksSyncTime(v)

IntervalSpec == Init /\ [][IntervalNext]_vars

\* ------------------------------------------------------------------- claims
AllPasses == BagToSet(running) \cup {lastPass}
\* Number of syncService.synchBlocks calls for channel c that have not settled.
InFlight(c) ==
    LET rs == {ps \in BagToSet(running) : ps.idx = c}
    IN  BagCardinality([ps \in rs |-> running[ps]])
NoActiveStream == \A c \in Channels : ~connected[c]

\* C1: at most one synchronization run per channel is in flight: a pass that
\* meets a channel whose previous synchBlocks call has not settled skips it.
C1_OneRunPerChannel == \A c \in Channels : InFlight(c) <= 1

\* C2: after destroy has returned the timer callback never runs again.
C2_NoTickAfterDestroy == [][destroyed => tickFlip' = tickFlip]_vars

\* C3: when the synchronization of channel A fails in a pass, every other
\* channel B of that pass is still processed (synchronized or reconnected).
C3_ErrorIsolation ==
    lastPass.st = "failed" =>
        \A b \in Channels \ {lastPass.failedAt} :
            lastPass.syncCalls[b] + lastPass.reconnCalls[b] >= 1

C5_DisconnectedPolicy ==
    \A ps \in AllPasses : \A c \in Channels :
        /\ ps.seen[c] = "disc" => ps.reconnCalls[c] = 1 /\ ps.syncCalls[c] = 0
        /\ ps.seen[c] = "conn" => ps.syncCalls[c] = 1 /\ ps.reconnCalls[c] = 0
        /\ ps.seen[c] = "none" => ps.syncCalls[c] = 0 /\ ps.reconnCalls[c] = 0
C5_Witness ==
    /\ lastPass.st = "done"
    /\ \E c, d \in Channels : lastPass.seen[c] = "disc" /\ lastPass.seen[d] = "conn"

\* C6: a pass visits every known channel once, and each is either
\* synchronized or asked to reconnect.
C6_EveryChannelVisited ==
    lastPass.st \in {"done", "failed"} =>
        \A c \in Channels :
            /\ lastPass.seen[c] # "none"
            /\ lastPass.syncCalls[c] + lastPass.reconnCalls[c] = 1

\* C7: when synchNetworkConfigToDB reports failure, initialize returns without
\* raising and nothing is started: no event hub, no stream, no timer, no tick.
C7_RegistrationFailureStops ==
    registered = "false" =>
        /\ initPc = "returned" /\ initError = "none"
        /\ eventHub = "null" /\ ~hubInitialized /\ NoActiveStream
        /\ timers = <<>> /\ startInterval = -1 /\ ~ticked
C7_Witness == registered = "false" /\ initPc = "returned" /\ client = "client"

\* C8: when destroy was called before initialize had completed, then once
\* initialize has ended no event stream is active and no timer is pending.
C8_ShutdownDuringInit ==
    (destroyedEarly /\ InitFinished) => (NoActiveStream /\ timers = <<>>)

\* C9: destroy never raises, in any state; it leaves no active event stream;
\* and a second destroy leaves the state the first one left.
C9_DestroyIdempotent ==
    LET once == destroy(eventHub, connected)
        twice == destroy(eventHub, once.conn)
    IN  /\ ~destroyRaised /\ ~once.raised /\ ~twice.raised
        /\ \A c \in Channels : ~once.conn[c]
        /\ twice.conn = once.conn
C9_Witness == destroyed /\ initPc = "done" /\ eventHub = "hub" /\ NoActiveStream

\* C10: the timer callback first runs only when initialize has scheduled it
\* and a full interval (blocksSyncTime at that moment) has passed since; until
\* then the controller has made no synchBlocks and no reconnect call.
C10_FirstTickAfterInterval ==
    /\ ticked => /\ initPc = "done"
                 /\ startInterval # -1
                 /\ sinceStart >= startInterval
    /\ ~ticked => running = EmptyBag /\ lastPass = IdlePass
C10_Witness == ticked /\ initPc = "done" /\ sinceStart = DefaultBlocksSyncTime

\* C11: the sync interval is strictly positive in every reachable state,
\* whatever sequence of setBlocksSyncTime calls was made and whatever they were
\* given; an input of "0" is rejected and the previous value is kept.
C11_IntervalPositive ==
    /\ blocksSyncTime > 0
    /\ lastArg = JsStr(<<"0">>) => blocksSyncTime = prevSyncTime

\* C12: initialize takes the sync interval from the configuration: a field of
\* n minutes gives a timer interval of n * 60000 ms, and the default of 60000
\* ms is used only when the field is absent or not a number.
IntervalOfConfig(cfg) ==
    IF cfg.t = "number" /\ cfg.n > 0 THEN cfg.n * 60 * 1000 ELSE DefaultBlocksSyncTime
C12_IntervalFromConfig ==
    initPc = "done" =>
        /\ startInterval = IntervalOfConfig(config_sync)
        /\ timers = <<IntervalOfConfig(config_sync)>>

\* C13: setBlocksSyncTime converts minutes to milliseconds: an input that is a
\* positive integer n, as a number or as a decimal numeral such as "5", sets the
\* interval to n * 60 * 1000 ms ("5" gives 300000); an input that is absent or
\* not numeric, such as "abc", leaves the interval as it was.
RECURSIVE NumeralValue(_)
NumeralValue(s) ==
    IF s = <<>> THEN 0
    ELSE 10 * NumeralValue(SubSeq(s, 1, Len(s) - 1)) + DigitVal(s[Len(s)])
IsNumeral(v) == v.t = "string" /\ v.s # <<>> /\ \A i \in 1..Len(v.s) : IsDigit(v.s[i])
PositiveInteger(v) ==
    \/ v.t = "number" /\ v.n > 0
    \/ IsNumeral(v) /\ NumeralValue(v.s) > 0
IntegerOf(v) == IF v.t = "number" THEN v.n ELSE NumeralValue(v.s)
AbsentOrNonNumeric(v) ==
    \/ v.t \in {"undefined", "object"}
    \/ v.t = "string" /\ (v.s = <<>> \/ Head(v.s) \in {"a", "b", "c"})
C13_MinutesToMs ==
    /\ PositiveInteger(lastArg) => blocksSyncTime = IntegerOf(lastArg) * 60 * 1000
    /\ AbsentOrNonNumeric(lastArg) => blocksSyncTime = prevSyncTime
    /\ lastArg = JsStr(<<"5">>) => blocksSyncTime = 300000
\* "5" has set 300000 ms, and a later "abc" has left it there.
C13_Witness ==
    /\ lastArg = JsStr(<<"a", "b", "c">>)
    /\ prevSyncTime = 300000
    /\ blocksSyncTime = 300000

\* C14: initialize selects the network and the client from its arguments: with
\* none, the first network of the configuration and that network's default
\* client name; with one, the named network and the first client listed under
\* it; with two, the named network and the named client.
Selected(args, network, clnt) ==
    CASE Len(args) = 0 ->
           /\ network = "net1"
           /\ clnt = "clientA"
      [] Len(args) = 1 /\ args[1] = "net1" -> network = "net1" /\ clnt = "clientA"
      [] Len(args) = 1 /\ args[1] = "net2" -> network = "net2" /\ clnt = "clientC"
      [] Len(args) = 2 -> network = args[1] /\ clnt = args[2]
      [] OTHER -> TRUE
NamesNotInConfig ==
    /\ initPc # "idle"
    /\ ~IsNetwork(network_name) \/ ~IsClientOf(network_name, client_name)
C15_UnknownNamesAbort ==
    NamesNotInConfig =>
        /\ initPc \in {"await_setBlocksSyncTime", "raised"}
        /\ initPc = "raised" => initError \in {"TypeError", "ConfigError"}
        /\ client_configs = "null"
        /\ client = "null"
        /\ registered = "none"
        /\ eventHub = "null"
        /\ timers = <<>>

\* C16: when client construction yields no usable client, initialize raises a
\* fatal error and stops there: the network is not registered, no event
\* registry is created and no timer is ever scheduled; initialize goes past
\* client construction only with a client.
C16_NoClientIsFatal ==
    /\ initError = "ERROR_2011" =>
           /\ initPc = "raised"
           /\ client = "null"
           /\ registered = "none"
           /\ eventHub = "null"
           /\ ~hubInitialized
           /\ timers = <<>>
           /\ startInterval = -1
           /\ ~ticked
    /\ initPc \in {"await_synchNetworkConfigToDB", "await_eventHub_initialize",
                   "done", "returned"} => client # "null"
    /\ registered # "none" => client # "null"
\* createFabricClient returned null for a client the configuration lists.
C16_Witness ==
    /\ initPc = "raised"
    /\ initError = "ERROR_2011"
    /\ client_configs = "net1"
    /\ client_name = "clientA"
    /\ client = "null"

\* C17: there is a single periodic timer: at most one timer of the controller
\* is pending at any time, none before initialize has succeeded, and exactly one
\* from then on, so that every run of the timer callback, which removes the
\* timer that fired, schedules exactly one successor.
C17_SingleTimer ==
    /\ Len(timers) <= 1
    /\ initPc = "done" => Len(timers) = 1
    /\ initPc # "done" => timers = <<>> /\ ~ticked
\* The callback has run and its one successor is pending, a full interval away.
C17_Witness ==
    /\ ticked
    /\ timers = <<DefaultBlocksSyncTime>>
    /\ running # EmptyBag

\* C18: rescheduling is at a fixed rate from the start of the tick and does not
\* wait for synchronization: the step in which the timer callback runs leaves
\* exactly one timer pending, due one full interval later, whether or not the
\* run it has just dispatched, or a run of an earlier tick, is still awaiting a
\* synchronization; the runs already in progress stay in progress.
C18_FixedRateFromTickStart ==
    [][(tickFlip' # tickFlip) =>
           /\ timers = <<0>>
           /\ timers' = <<blocksSyncTime>>
           /\ \A ps \in BagToSet(running) : CopiesIn(ps, running') >= CopiesIn(ps, running)]_vars
\* The run of an earlier tick still awaits a synchronization, a later tick has
\* dispatched its own run, and the next tick is one interval away.
C18_Witness ==
    /\ ticked
    /\ BagCardinality(running) = 2
    /\ timers = <<blocksSyncTime>>

\* C19: the SDK settings are set once, before any client is constructed, and
\* never change afterwards: initialize sets discovery-cache-life to the sync
\* interval as it is at that moment and initialize-with-discovery to true before
\* createFabricClient is called, and every later step leaves both settings as
\* they are, also a step of setBlocksSyncTime that changes the interval.
PastSdkSettings ==
    initPc \in {"await_setOrgEnrolmentPath", "await_createFabricClient",
                "await_synchNetworkConfigToDB", "await_eventHub_initialize",
                "done", "returned"}
C19_SettingsSetOnce ==
    [][/\ (initPc = "await_setBlocksSyncTime" /\ initPc' # initPc) =>
              /\ hfc'.discovery_cache_life = blocksSyncTime
              /\ hfc'.initialize_with_discovery = TRUE
              /\ client_configs' = "null"
              /\ client' = "null"
       /\ initPc \notin {"idle", "await_setBlocksSyncTime"} => hfc' = hfc
       /\ PastSdkSettings' => hfc'.initialize_with_discovery = TRUE
       /\ client' # "null" => PastSdkSettings]_vars
\* The interval was changed after initialize, the setting is as initialize left it.
C19_Witness ==
    /\ initPc = "done"
    /\ client = "client"
    /\ blocksSyncTime = 300000
    /\ hfc = [discovery_cache_life |-> DefaultBlocksSyncTime, initialize_with_discovery |-> TRUE]
\* C19 as stated: once set, discovery-cache-life equals the sync interval the
\* controller uses, in every later state.
C19_CacheLifeTracksInterval ==
    PastSdkSettings =>
        /\ hfc.initialize_with_discovery = TRUE
        /\ hfc.discovery_cache_life = blocksSyncTime

\* C20: the controller runs against fully initialized state only: whenever a
\* timer is pending or the timer callback has run, initialize has completed,
\* the client is there, the network was registered, and the event registry was
\* constructed and its initialization has completed.
C20_TicksOnInitializedState ==
    (timers # <<>> \/ ticked \/ startInterval # -1) =>
        /\ initPc = "done"
        /\ client = "client"
        /\ registered = "true"
        /\ eventHub = "hub"
        /\ hubInitialized
C20_Witness ==
    /\ ticked
    /\ timers # <<>>
    /\ running # EmptyBag
    /\ eventHub = "hub"
    /\ hubInitialized
    /\ registered = "true"

====
